---------------------------- MODULE Spec2Model ----------------------------
(***************************************************************************)
(* Model of src/quantum_decision/quantum_gates.py: the QuantumGates        *)
(* state-vector simulator (specification Spec), and of four components     *)
(* around it, each with a specification of its own: EventEngineMCP         *)
(* (EventSpec), TradeSignal (TradeSpec), ProfilerMCP (ProfilerSpec) and    *)
(* QuantumAttention (AttentionSpec).                                       *)
(*                                                                         *)
(* Amplitudes.  Every matrix entry the module builds for the arguments     *)
(* enumerated here lies in the ring Z[sqrt2, i, 1/2], so an amplitude is   *)
(* kept exactly, as the tuple <<a, b, c, d, k>> standing for               *)
(*        (a + b*sqrt2 + c*i + d*sqrt2*i) / 2^k                            *)
(* in lowest terms (k as small as possible).  torch computes the same      *)
(* values in complex64; the rounding of that format is not modelled.       *)
(*                                                                         *)
(* Angles are counted in units of pi/4.                                    *)
(***************************************************************************)
EXTENDS Integers, Sequences, FiniteSets, TLC

(***************************************************************************)
(* Bounds of the model.                                                    *)
(***************************************************************************)
MaxCalls == 2
MaxShots == 2
MaxRegistrations == 3
MaxTime == 160
TimeStep == 20
MaxRequests == 4
MaxDropoutCalls == 3

(***************************************************************************)
(* Exact complex arithmetic.                                               *)
(***************************************************************************)
Even(n) == n % 2 = 0

RECURSIVE Pow2(_)
Pow2(n) == IF n <= 0 THEN 1 ELSE 2 * Pow2(n - 1)

RECURSIVE CNorm(_)
CNorm(x) ==
    IF x[5] > 0 /\ Even(x[1]) /\ Even(x[2]) /\ Even(x[3]) /\ Even(x[4])
    THEN CNorm(<<x[1] \div 2, x[2] \div 2, x[3] \div 2, x[4] \div 2, x[5] - 1>>)
    ELSE x

CInt(n) == <<n, 0, 0, 0, 0>>
Zero == CInt(0)
One == CInt(1)
ImagI == <<0, 0, 1, 0, 0>>
Sqrt2 == <<0, 1, 0, 0, 0>>

CScale(x, k) ==
    LET m == Pow2(k - x[5]) IN <<x[1] * m, x[2] * m, x[3] * m, x[4] * m, k>>

CAdd(x, y) ==
    LET k == IF x[5] > y[5] THEN x[5] ELSE y[5]
        u == CScale(x, k)
        v == CScale(y, k)
    IN  CNorm(<<u[1] + v[1], u[2] + v[2], u[3] + v[3], u[4] + v[4], k>>)

CNeg(x) == <<-x[1], -x[2], -x[3], -x[4], x[5]>>

CSub(x, y) == CAdd(x, CNeg(y))

CMul(x, y) ==
    CNorm(<<x[1]*y[1] + 2*x[2]*y[2] - x[3]*y[3] - 2*x[4]*y[4],
            x[1]*y[2] + x[2]*y[1] - x[3]*y[4] - x[4]*y[3],
            x[1]*y[3] + x[3]*y[1] + 2*x[2]*y[4] + 2*x[4]*y[2],
            x[1]*y[4] + x[4]*y[1] + x[2]*y[3] + x[3]*y[2],
            x[5] + y[5]>>)

CConj(x) == <<x[1], x[2], -x[3], -x[4], x[5]>>

\* x / 2^n
CHalve(x, n) == CNorm(<<x[1], x[2], x[3], x[4], x[5] + n>>)

\* x / sqrt(2) = x * sqrt2 / 2
CDivSqrt2(x) == CHalve(CMul(x, Sqrt2), 1)

\* |x|^2, a real number of the ring
CAbs2(x) == CMul(x, CConj(x))


(***************************************************************************)
(* np.cos, np.sin and cmath.exp(1j * .) at m * pi/4.                       *)
(***************************************************************************)
InvSqrt2 == CDivSqrt2(One)

np_cos(m) ==
    CASE m % 8 = 0 -> One
      [] m % 8 \in {1, 7} -> InvSqrt2
      [] m % 8 \in {2, 6} -> Zero
      [] m % 8 \in {3, 5} -> CNeg(InvSqrt2)
      [] OTHER -> CNeg(One)

np_sin(m) ==
    CASE m % 8 \in {0, 4} -> Zero
      [] m % 8 \in {1, 3} -> InvSqrt2
      [] m % 8 = 2 -> One
      [] m % 8 \in {5, 7} -> CNeg(InvSqrt2)
      [] OTHER -> CNeg(One)

cmath_exp_i(m) == CAdd(np_cos(m), CMul(ImagI, np_sin(m)))

(***************************************************************************)
(* Tensors: a shape and the entries in row-major order.                    *)
(***************************************************************************)
None == [shape |-> <<>>, data |-> <<>>]

Tensor1(xs) == [shape |-> <<Len(xs)>>, data |-> xs]

\* torch.tensor(rows) for a rectangular list of rows
Tensor2(rows) ==
    LET r == Len(rows)
        c == Len(rows[1])
    IN  [shape |-> <<r, c>>,
         data |-> [n \in 1..(r * c) |-> rows[((n - 1) \div c) + 1][((n - 1) % c) + 1]]]

Ints(xs) == [n \in 1..Len(xs) |-> CInt(xs[n])]

IntRows(rows) == [r \in 1..Len(rows) |-> Ints(rows[r])]

\* entry (i, j), counted from 0, of a 2-D tensor
At(t, i, j) == t.data[i * t.shape[2] + j + 1]

Numel(t) == Len(t.data)

\* t / np.sqrt(2)
DivSqrt2(t) == [t EXCEPT !.data = [n \in 1..Len(t.data) |-> CDivSqrt2(t.data[n])]]

torch_zeros(r, c) == [shape |-> <<r, c>>, data |-> [n \in 1..(r * c) |-> Zero]]

torch_eye(m) ==
    [shape |-> <<m, m>>,
     data |-> [n \in 1..(m * m) |-> IF (n - 1) \div m = (n - 1) % m THEN One ELSE Zero]]

\* t.view(1, -1) and t.view(-1)
view_1_n(t) == [t EXCEPT !.shape = <<1, Len(t.data)>>]
view_n(t) == [t EXCEPT !.shape = <<Len(t.data)>>]

RECURSIVE CSum(_, _)
CSum(xs, n) == IF n = 0 THEN Zero ELSE CAdd(CSum(xs, n - 1), xs[n])

\* the outcome of a torch call: the tensor it returns, or the exception it raises
Value(v) == [error |-> "none", value |-> v]
Raised(e) == [error |-> e, value |-> None]

(***************************************************************************)
(* torch.matmul(x, y) for a 1-D or 2-D x and a 2-D y: the inner dimensions *)
(* must agree, otherwise torch raises RuntimeError.                        *)
(***************************************************************************)
matmul(x, y) ==
    LET inner == x.shape[Len(x.shape)]
        rows == IF Len(x.shape) = 1 THEN 1 ELSE x.shape[1]
        cols == y.shape[2]
        entry(n) ==
            LET i == (n - 1) \div cols
                j == (n - 1) % cols
            IN  CSum([k \in 1..inner |-> CMul(x.data[i * inner + k], At(y, k - 1, j))], inner)
    IN  IF Len(x.shape) \notin {1, 2} \/ Len(y.shape) # 2 \/ inner # y.shape[1]
        THEN Raised("RuntimeError")
        ELSE Value([shape |-> IF Len(x.shape) = 1 THEN <<cols>> ELSE <<rows, cols>>,
                    data |-> [n \in 1..(rows * cols) |-> entry(n)]])

(***************************************************************************)
(* t[r0:r0+h, c0:c0+w] = src : the slice assignment of a 2-D tensor, with  *)
(* torch's broadcasting of src (a dimension of size 1 is repeated).        *)
(***************************************************************************)
Broadcastable(src, h, w) ==
    /\ Len(src.shape) = 2
    /\ src.shape[1] \in {1, h}
    /\ src.shape[2] \in {1, w}

set_block(t, r0, c0, h, w, src) ==
    IF ~Broadcastable(src, h, w)
    THEN Raised("RuntimeError")
    ELSE Value([t EXCEPT !.data =
            [n \in 1..Len(t.data) |->
                LET i == (n - 1) \div t.shape[2]
                    j == (n - 1) % t.shape[2]
                IN  IF i >= r0 /\ i < r0 + h /\ j >= c0 /\ j < c0 + w
                    THEN At(src, IF src.shape[1] = 1 THEN 0 ELSE i - r0,
                                 IF src.shape[2] = 1 THEN 0 ELSE j - c0)
                    ELSE t.data[n]]])

\* torch.kron(a, b) for 2-D tensors
torch_kron(a, b) ==
    LET r == a.shape[1] * b.shape[1]
        c == a.shape[2] * b.shape[2]
    IN  [shape |-> <<r, c>>,
         data |-> [n \in 1..(r * c) |->
            LET i == (n - 1) \div c
                j == (n - 1) % c
            IN  CMul(At(a, i \div b.shape[1], j \div b.shape[2]),
                     At(b, i % b.shape[1], j % b.shape[2]))]]

\* torch.mean(t): the sum of the entries over their number, a power of two here
RECURSIVE ILog2(_)
ILog2(n) == IF n <= 1 THEN 0 ELSE 1 + ILog2(n \div 2)

torch_mean(t) == CHalve(CSum(t.data, Len(t.data)), ILog2(Len(t.data)))

\* mutant: m - t, the factor 2 left out
m_minus(m, t) ==
    [t EXCEPT !.data = [n \in 1..Len(t.data) |-> CSub(m, t.data[n])]]

\* 2 * m - t, the scalar m broadcast over t
two_m_minus(m, t) ==
    [t EXCEPT !.data = [n \in 1..Len(t.data) |-> CSub(CMul(CInt(2), m), t.data[n])]]

(***************************************************************************)
(* QuantumGates.__init__: the gate library of an instance.                 *)
(***************************************************************************)
\* mutants: the scaling by 1/sqrt(2) left out; a sign of the second row lost
init_hadamard_matrix_unscaled == Tensor2(IntRows(<<<<1, 1>>, <<1, -1>>>>))

init_hadamard_matrix_no_sign == DivSqrt2(Tensor2(IntRows(<<<<1, 1>>, <<1, 1>>>>)))

init_hadamard_matrix == DivSqrt2(Tensor2(IntRows(<<<<1, 1>>, <<1, -1>>>>)))

init_pauli_x == Tensor2(IntRows(<<<<0, 1>>, <<1, 0>>>>))

init_pauli_y == Tensor2(<<<<Zero, CNeg(ImagI)>>, <<ImagI, Zero>>>>)

init_pauli_z == Tensor2(IntRows(<<<<1, 0>>, <<0, -1>>>>))

init_identity == torch_eye(2)

init_s_gate == Tensor2(<<<<One, Zero>>, <<Zero, ImagI>>>>)

\* mutant: the phase pi/2 in place of pi/4
init_t_gate_half_pi == Tensor2(<<<<One, Zero>>, <<Zero, cmath_exp_i(2)>>>>)

init_t_gate == Tensor2(<<<<One, Zero>>, <<Zero, cmath_exp_i(1)>>>>)

\* mutant: the rows of the permutation mistyped into a 3-cycle
init_cnot_cycle ==
    Tensor2(IntRows(<<<<1, 0, 0, 0>>, <<0, 0, 1, 0>>, <<0, 0, 0, 1>>, <<0, 1, 0, 0>>>>))

init_cnot ==
    Tensor2(IntRows(<<<<1, 0, 0, 0>>, <<0, 1, 0, 0>>, <<0, 0, 0, 1>>, <<0, 0, 1, 0>>>>))

init_swap ==
    Tensor2(IntRows(<<<<1, 0, 0, 0>>, <<0, 0, 1, 0>>, <<0, 1, 0, 0>>, <<0, 0, 0, 1>>>>))

QuantumGates ==
    [hadamard_matrix |-> init_hadamard_matrix,
     pauli_x |-> init_pauli_x,
     pauli_y |-> init_pauli_y,
     pauli_z |-> init_pauli_z,
     identity |-> init_identity,
     s_gate |-> init_s_gate,
     t_gate |-> init_t_gate,
     cnot |-> init_cnot,
     swap |-> init_swap]

(***************************************************************************)
(* The methods.  A call is given the instance and its arguments and yields *)
(* an effect: the instance and the argument tensors as the call leaves     *)
(* them, and the tensor returned or the exception raised.                  *)
(***************************************************************************)
Effect(self, args, r) == [self |-> self, args |-> args, error |-> r.error, value |-> r.value]

apply_hadamard(self, q_state) ==
    Effect(self, <<q_state>>, matmul(q_state, self.hadamard_matrix))

\* mutant: the flip written into the tensor passed in
apply_pauli_x_inplace(self, q_state) ==
    LET r == matmul(q_state, self.pauli_x)
    IN  Effect(self, <<IF r.error = "none" THEN r.value ELSE q_state>>, r)

apply_pauli_x(self, q_state) ==
    Effect(self, <<q_state>>, matmul(q_state, self.pauli_x))

\* mutant: the state multiplied from the left, torch.matmul(self.pauli_y, q_state)
apply_pauli_y_left(self, q_state) ==
    Effect(self, <<q_state>>,
           IF q_state.shape # <<2>> THEN Raised("RuntimeError")
           ELSE Value(Tensor1(
                  <<CAdd(CMul(At(self.pauli_y, 0, 0), q_state.data[1]),
                         CMul(At(self.pauli_y, 0, 1), q_state.data[2])),
                    CAdd(CMul(At(self.pauli_y, 1, 0), q_state.data[1]),
                         CMul(At(self.pauli_y, 1, 1), q_state.data[2]))>>)))

apply_pauli_y(self, q_state) ==
    Effect(self, <<q_state>>, matmul(q_state, self.pauli_y))

apply_pauli_z(self, q_state) ==
    Effect(self, <<q_state>>, matmul(q_state, self.pauli_z))

apply_s_gate(self, q_state) ==
    Effect(self, <<q_state>>, matmul(q_state, self.s_gate))

apply_t_gate(self, q_state) ==
    Effect(self, <<q_state>>, matmul(q_state, self.t_gate))

\* str.lower() on the axis labels used here
str_lower(a) ==
    CASE a = "X" -> "x"
      [] a = "Y" -> "y"
      [] a = "Z" -> "z"
      [] a = "W" -> "w"
      [] OTHER -> a

\* mutant: an unknown axis falls back to the z rotation
apply_rotation_default_z(self, q_state, angle, axis) ==
    LET cos == np_cos(angle \div 2)
        sin == np_sin(angle \div 2)
        misin == CNeg(CMul(ImagI, sin))
    IN  IF str_lower(axis) = "x"
        THEN Effect(self, <<q_state>>,
                    matmul(q_state, Tensor2(<<<<cos, misin>>, <<misin, cos>>>>)))
        ELSE IF str_lower(axis) = "y"
        THEN Effect(self, <<q_state>>,
                    matmul(q_state, Tensor2(<<<<cos, CNeg(sin)>>, <<sin, cos>>>>)))
        ELSE Effect(self, <<q_state>>,
                    matmul(q_state, Tensor2(<<<<cmath_exp_i(-(angle \div 2)), Zero>>,
                                              <<Zero, cmath_exp_i(angle \div 2)>>>>)))

\* mutant: cos and sin taken for each other
apply_rotation_sin_cos(self, q_state, angle, axis) ==
    LET cos == np_sin(angle \div 2)
        sin == np_cos(angle \div 2)
        misin == CNeg(CMul(ImagI, sin))
    IN  IF str_lower(axis) = "x"
        THEN Effect(self, <<q_state>>,
                    matmul(q_state, Tensor2(<<<<cos, misin>>, <<misin, cos>>>>)))
        ELSE IF str_lower(axis) = "y"
        THEN Effect(self, <<q_state>>,
                    matmul(q_state, Tensor2(<<<<cos, CNeg(sin)>>, <<sin, cos>>>>)))
        ELSE IF str_lower(axis) = "z"
        THEN Effect(self, <<q_state>>,
                    matmul(q_state, Tensor2(<<<<CSub(sin, CMul(ImagI, cos)), Zero>>,
                                              <<Zero, CAdd(sin, CMul(ImagI, cos))>>>>)))
        ELSE Effect(self, <<q_state>>, Raised("ValueError"))

\* mutant: the whole angle in place of the half angle
apply_rotation_full_angle(self, q_state, angle, axis) ==
    LET cos == np_cos(angle)
        sin == np_sin(angle)
        misin == CNeg(CMul(ImagI, sin))
    IN  IF str_lower(axis) = "x"
        THEN Effect(self, <<q_state>>,
                    matmul(q_state, Tensor2(<<<<cos, misin>>, <<misin, cos>>>>)))
        ELSE IF str_lower(axis) = "y"
        THEN Effect(self, <<q_state>>,
                    matmul(q_state, Tensor2(<<<<cos, CNeg(sin)>>, <<sin, cos>>>>)))
        ELSE IF str_lower(axis) = "z"
        THEN Effect(self, <<q_state>>,
                    matmul(q_state, Tensor2(<<<<cmath_exp_i(-angle), Zero>>,
                                              <<Zero, cmath_exp_i(angle)>>>>)))
        ELSE Effect(self, <<q_state>>, Raised("ValueError"))

\* angle is in units of pi/4 and even, so that angle/2 is a multiple of pi/4
apply_rotation(self, q_state, angle, axis) ==
    LET cos == np_cos(angle \div 2)
        sin == np_sin(angle \div 2)
        misin == CNeg(CMul(ImagI, sin))
    IN  IF str_lower(axis) = "x"
        THEN Effect(self, <<q_state>>,
                    matmul(q_state, Tensor2(<<<<cos, misin>>, <<misin, cos>>>>)))
        ELSE IF str_lower(axis) = "y"
        THEN Effect(self, <<q_state>>,
                    matmul(q_state, Tensor2(<<<<cos, CNeg(sin)>>, <<sin, cos>>>>)))
        ELSE IF str_lower(axis) = "z"
        THEN Effect(self, <<q_state>>,
                    matmul(q_state, Tensor2(<<<<cmath_exp_i(-(angle \div 2)), Zero>>,
                                              <<Zero, cmath_exp_i(angle \div 2)>>>>)))
        ELSE Effect(self, <<q_state>>, Raised("ValueError"))

\* mutant: a state of another length handed back as it is
apply_cnot_lenient(self, q_states) ==
    Effect(self, <<q_states>>,
           IF q_states.shape # <<4>> THEN Value(q_states)
           ELSE matmul(q_states, self.cnot))

apply_cnot(self, q_states) ==
    Effect(self, <<q_states>>, matmul(q_states, self.cnot))

apply_swap(self, q_states) ==
    Effect(self, <<q_states>>, matmul(q_states, self.swap))

\* mutant: the matrix is built in the library's CNOT tensor instead of a fresh one
apply_controlled_u_in_cnot(self, q_states, u_matrix) ==
    LET upper == set_block(self.cnot, 0, 0, 2, 2, self.identity)
        controlled_u == IF upper.error = "none"
                        THEN set_block(upper.value, 2, 2, 2, 2, u_matrix)
                        ELSE upper
    IN  IF controlled_u.error # "none"
        THEN Effect(self, <<q_states, u_matrix>>, controlled_u)
        ELSE Effect([self EXCEPT !.cnot = controlled_u.value], <<q_states, u_matrix>>,
                    matmul(q_states, controlled_u.value))

\* mutant: the two blocks taken for each other
apply_controlled_u_blocks_swapped(self, q_states, u_matrix) ==
    LET zeros == torch_zeros(4, 4)
        upper == set_block(zeros, 0, 0, 2, 2, u_matrix)
        controlled_u == IF upper.error = "none"
                        THEN set_block(upper.value, 2, 2, 2, 2, self.identity)
                        ELSE upper
    IN  IF controlled_u.error # "none"
        THEN Effect(self, <<q_states, u_matrix>>, controlled_u)
        ELSE Effect(self, <<q_states, u_matrix>>, matmul(q_states, controlled_u.value))

apply_controlled_u(self, q_states, u_matrix) ==
    LET zeros == torch_zeros(4, 4)
        upper == set_block(zeros, 0, 0, 2, 2, self.identity)
        controlled_u == IF upper.error = "none"
                        THEN set_block(upper.value, 2, 2, 2, 2, u_matrix)
                        ELSE upper
    IN  IF controlled_u.error # "none"
        THEN Effect(self, <<q_states, u_matrix>>, controlled_u)
        ELSE Effect(self, <<q_states, u_matrix>>, matmul(q_states, controlled_u.value))

\* mutant: Pauli-X written one block too early
apply_toffoli_block_4(self, q_states) ==
    LET toffoli == set_block(torch_eye(8), 4, 4, 2, 2, self.pauli_x)
    IN  IF toffoli.error # "none"
        THEN Effect(self, <<q_states>>, toffoli)
        ELSE Effect(self, <<q_states>>, matmul(q_states, toffoli.value))

apply_toffoli(self, q_states) ==
    LET toffoli == set_block(torch_eye(8), 6, 6, 2, 2, self.pauli_x)
    IN  IF toffoli.error # "none"
        THEN Effect(self, <<q_states>>, toffoli)
        ELSE Effect(self, <<q_states>>, matmul(q_states, toffoli.value))

apply_phase(self, q_state, phase) ==
    Effect(self, <<q_state>>,
           matmul(q_state, Tensor2(<<<<One, Zero>>, <<Zero, cmath_exp_i(phase)>>>>)))

create_bell_state(self) ==
    LET state == Tensor1(Ints(<<1, 0, 0, 0>>))
        h == apply_hadamard(self, view_1_n(state))
        c == apply_cnot(h.self, view_1_n(view_n(h.value)))
    IN  IF h.error # "none"
        THEN [h EXCEPT !.args = <<>>]
        ELSE IF c.error # "none"
        THEN [c EXCEPT !.args = <<>>]
        ELSE [c EXCEPT !.args = <<>>, !.value = view_n(c.value)]

\* mutant: the matrix is checked first, ValueError unless matrix . matrix^dagger = I
apply_custom_gate_unitary_only(self, q_state, matrix) ==
    LET dagger == [shape |-> <<matrix.shape[2], matrix.shape[1]>>,
                   data |-> [n \in 1..Len(matrix.data) |->
                                CConj(At(matrix, (n - 1) % matrix.shape[1],
                                                 (n - 1) \div matrix.shape[1]))]]
    IN  IF matmul(matrix, dagger) # Value(torch_eye(matrix.shape[1]))
        THEN Effect(self, <<q_state, matrix>>, Raised("ValueError"))
        ELSE Effect(self, <<q_state, matrix>>, matmul(q_state, matrix))

\* mutant: the state multiplied by the transpose of the matrix
apply_custom_gate_transposed(self, q_state, matrix) ==
    Effect(self, <<q_state, matrix>>,
           matmul(q_state,
                  [shape |-> <<matrix.shape[2], matrix.shape[1]>>,
                   data |-> [n \in 1..Len(matrix.data) |->
                                At(matrix, (n - 1) % matrix.shape[1],
                                           (n - 1) \div matrix.shape[1])]]))

apply_custom_gate(self, q_state, matrix) ==
    Effect(self, <<q_state, matrix>>, matmul(q_state, matrix))

\* mutant: one round too many, range(n_qubits) in place of range(n_qubits-1)
RECURSIVE grover_h_n_one_more(_, _)
grover_h_n_one_more(self, k) ==
    IF k < 0 THEN self.hadamard_matrix
    ELSE torch_kron(grover_h_n_one_more(self, k - 1), self.hadamard_matrix)

\* h_n after k rounds of the loop of apply_grover_diffusion
RECURSIVE grover_h_n(_, _)
grover_h_n(self, k) ==
    IF k <= 0 THEN self.hadamard_matrix
    ELSE torch_kron(grover_h_n(self, k - 1), self.hadamard_matrix)

\* mutant: h_n kept in the library, self.hadamard_matrix = h_n, for the next call
apply_grover_diffusion_keeps_h_n(self, q_state) ==
    LET n_qubits == ILog2(q_state.shape[1])
        h_n == grover_h_n(self, n_qubits - 1)
        first == matmul(q_state, h_n)
        state == two_m_minus(torch_mean(first.value), first.value)
        kept == [self EXCEPT !.hadamard_matrix = h_n]
    IN  IF q_state.shape[1] = 0
        THEN Effect(self, <<q_state>>, Raised("OverflowError"))
        ELSE IF first.error # "none"
        THEN Effect(kept, <<q_state>>, first)
        ELSE Effect(kept, <<q_state>>, matmul(state, h_n))

\* mutant: the reflection about the mean alone, without the two products by h_n
apply_grover_diffusion_reflection(self, q_state) ==
    LET n_qubits == ILog2(q_state.shape[1])
        h_n == grover_h_n(self, n_qubits - 1)
        first == matmul(q_state, h_n)
    IN  IF q_state.shape[1] = 0
        THEN Effect(self, <<q_state>>, Raised("OverflowError"))
        ELSE IF first.error # "none"
        THEN Effect(self, <<q_state>>, first)
        ELSE Effect(self, <<q_state>>, Value(two_m_minus(torch_mean(q_state), q_state)))

apply_grover_diffusion(self, q_state) ==
    LET n_qubits == ILog2(q_state.shape[1])
        h_n == grover_h_n(self, n_qubits - 1)
        first == matmul(q_state, h_n)
        state == two_m_minus(torch_mean(first.value), first.value)
    IN  IF q_state.shape[1] = 0
        THEN Effect(self, <<q_state>>, Raised("OverflowError"))
        ELSE IF first.error # "none"
        THEN Effect(self, <<q_state>>, first)
        ELSE Effect(self, <<q_state>>, matmul(state, h_n))

(***************************************************************************)
(* measure.  The result dictionary maps a label to count / shots, kept as  *)
(* the pair <<count, shots>>.                                              *)
(***************************************************************************)
\* torch.abs(t) ** 2
torch_abs2(t) == [t EXCEPT !.data = [n \in 1..Len(t.data) |-> CAbs2(t.data[n])]]

\* mutant: the check of the number of samples left out
multinomial_raises_on_weights_only(probs, shots) ==
    \A n \in 1..Len(probs.data) : probs.data[n] = Zero

\* torch.multinomial(probs, shots, replacement=True) raises RuntimeError when asked
\* for no sample or given weights that sum to zero
multinomial_raises(probs, shots) ==
    \/ shots <= 0
    \/ \A n \in 1..Len(probs.data) : probs.data[n] = Zero

\* the tensors torch.multinomial can return: shots indices (from 0) of non-zero weight
multinomial(probs, shots) ==
    IF multinomial_raises(probs, shots) THEN {}
    ELSE [1..shots -> {i \in 0..(Len(probs.data) - 1) : probs.data[i + 1] # Zero}]

Bit(b) == IF b = 0 THEN "0" ELSE "1"

\* mutant: format(i, 'b'), the zero padding left out
RECURSIVE format_b_unpadded(_, _)
format_b_unpadded(i, width) ==
    IF i < 2 THEN Bit(i)
    ELSE format_b_unpadded(i \div 2, width) \o Bit(i % 2)

\* format(i, f'0{width}b')
RECURSIVE format_b(_, _)
format_b(i, width) ==
    IF i < 2 /\ width <= 1 THEN Bit(i)
    ELSE format_b(i \div 2, width - 1) \o Bit(i % 2)

EmptyDict == [k \in {} |-> <<0, 1>>]

\* d[k] = v
dict_set(d, k, v) == [x \in (DOMAIN d) \cup {k} |-> IF x = k THEN v ELSE d[x]]

\* (outcomes == i).sum().item()
count_eq(outcomes, i) == Cardinality({k \in DOMAIN outcomes : outcomes[k] = i})

\* mutant: the count divided by the number of outcomes instead of the shots
RECURSIVE measure_loop_per_outcome(_, _, _, _)
measure_loop_per_outcome(probs, outcomes, shots, i) ==
    IF i = 0 THEN EmptyDict
    ELSE LET result == measure_loop_per_outcome(probs, outcomes, shots, i - 1)
             binary == format_b(i - 1, ILog2(probs.shape[1]))
             count == count_eq(outcomes, i - 1)
         IN  IF count > 0 THEN dict_set(result, binary, <<count, probs.shape[1]>>) ELSE result

\* mutant: every label recorded, drawn or not
RECURSIVE measure_loop_all_labels(_, _, _, _)
measure_loop_all_labels(probs, outcomes, shots, i) ==
    IF i = 0 THEN EmptyDict
    ELSE LET result == measure_loop_all_labels(probs, outcomes, shots, i - 1)
             binary == format_b(i - 1, ILog2(probs.shape[1]))
             count == count_eq(outcomes, i - 1)
         IN  IF count >= 0 THEN dict_set(result, binary, <<count, shots>>) ELSE result

\* result after the first i rounds of the loop of measure
RECURSIVE measure_loop(_, _, _, _)
measure_loop(probs, outcomes, shots, i) ==
    IF i = 0 THEN EmptyDict
    ELSE LET result == measure_loop(probs, outcomes, shots, i - 1)
             binary == format_b(i - 1, ILog2(probs.shape[1]))
             count == count_eq(outcomes, i - 1)
         IN  IF count > 0 THEN dict_set(result, binary, <<count, shots>>) ELSE result

\* outcomes is the tensor torch.multinomial returned (unused when it raises)
measure(self, q_state, shots, outcomes) ==
    LET probs == torch_abs2(q_state)
    IN  IF multinomial_raises(probs, shots)
        THEN [self |-> self, args |-> <<q_state>>, error |-> "RuntimeError", value |-> EmptyDict]
        ELSE [self |-> self, args |-> <<q_state>>, error |-> "none",
              value |-> measure_loop(probs, outcomes, shots, probs.shape[1])]

(***************************************************************************)
(* The arguments a caller passes.                                          *)
(***************************************************************************)
Basis(n, i) == Tensor1([k \in 1..n |-> IF k = i + 1 THEN One ELSE Zero])

Half == CHalve(One, 1)

States2 ==
    {Basis(2, 0),
     Tensor1(<<InvSqrt2, CNeg(CMul(ImagI, InvSqrt2))>>),
     Tensor1(<<One, One>>),
     Tensor1(<<Zero, Zero>>)}

States4 ==
    {Basis(4, 2),
     Tensor1(<<Half, CMul(ImagI, Half), CNeg(Half), Half>>),
     Tensor1(<<One, CInt(2), Zero, ImagI>>)}

States8 == {Basis(8, i) : i \in 0..7}

\* a state whose length is no power of two
States3 == {Basis(3, 1)}

States == States2 \cup States3 \cup States4 \cup States8

NonUnitary2 == Tensor2(IntRows(<<<<1, 1>>, <<0, 1>>>>))

CnotSwap == matmul(init_cnot, init_swap).value

CustomMatrices == {init_identity, NonUnitary2, CnotSwap}

UMatrices == {init_pauli_x, NonUnitary2}

\* <<angle, axis>> of the calls of apply_rotation: 0, pi/2 and 2 pi
RotationArgs ==
    {<<0, "x">>, <<0, "y">>, <<0, "z">>, <<8, "z">>, <<2, "x">>, <<2, "w">>, <<0, "X">>}

Phases == {1}

ShotCounts == -1..MaxShots

\* sum of the squared magnitudes of a state
Norm2(t) == CSum(torch_abs2(t).data, Len(t.data))

Normalized(t) == Norm2(t) = One

(***************************************************************************)
(* Values of Python arguments of the other components: the type of the     *)
(* value, and its content as a string or an integer.                       *)
(***************************************************************************)
PyStr(s) == [type |-> "str", s |-> s, n |-> 0]
PyInt(n) == [type |-> "int", s |-> "", n |-> n]
PyFunction(name) == [type |-> "function", s |-> name, n |-> 0]
PyBool(b) == [type |-> "bool", s |-> "", n |-> IF b THEN 1 ELSE 0]
PyNone == [type |-> "NoneType", s |-> "", n |-> 0]

\* bool(v)
truthy(v) ==
    CASE v.type = "str" -> v.s # ""
      [] v.type \in {"int", "bool"} -> v.n # 0
      [] v.type = "function" -> TRUE
      [] OTHER -> FALSE

\* the empty dict and list, and a key that a dict lacks
NoDict == [k \in {} |-> PyNone]
dict_get(d, k, default) == IF k \in DOMAIN d THEN d[k] ELSE default

\* list.insert(idx, x), idx counted from 0
list_insert(list, idx, x) ==
    SubSeq(list, 1, idx) \o <<x>> \o SubSeq(list, idx + 1, Len(list))

(***************************************************************************)
(* src/event_engine_MCP.py: EventEngineMCP.  self.handlers maps an event   *)
(* type to the list of its EventHandler records.                           *)
(***************************************************************************)
EventHandler(callback, event_type, priority) ==
    [callback |-> callback, event_type |-> event_type, priority |-> priority]

\* the exception _validate_handler_params raises, or "none"
validate_handler_params(event_type, callback) ==
    IF event_type.type # "str" THEN "ValueError"
    ELSE IF callback.type # "function" THEN "ValueError"
    ELSE IF ~truthy(event_type) \/ ~truthy(callback) THEN "ValueError"
    ELSE "none"

\* the loop of register_handler from index idx on: the index of the first
\* handler whose priority is at most the new one, or the initial 0
RECURSIVE insert_idx(_, _, _)
insert_idx(handlers_list, priority, idx) ==
    IF idx >= Len(handlers_list) THEN 0
    ELSE IF handlers_list[idx + 1].priority <= priority THEN idx
    ELSE insert_idx(handlers_list, priority, idx + 1)

NoResponse == [status |-> "none", event_type |-> "", handler_count |-> 0, priority |-> 0]

\* register_handler(params): the handlers afterwards, and the dict returned
\* or the exception raised (logged and raised again)
register_handler(handlers_, params) ==
    IF "event_type" \notin DOMAIN params \/ "callback" \notin DOMAIN params
    THEN [handlers |-> handlers_, error |-> "KeyError", value |-> NoResponse]
    ELSE
    LET event_type == params["event_type"]
        callback == params["callback"]
        priority == dict_get(params, "priority", PyInt(0)).n
        invalid == validate_handler_params(event_type, callback)
        handler == EventHandler(callback, event_type, priority)
        handlers_list == dict_get(handlers_, event_type.s, <<>>)
        inserted == list_insert(handlers_list, insert_idx(handlers_list, priority, 0),
                                handler)
    IN  IF invalid # "none"
        THEN [handlers |-> handlers_, error |-> invalid, value |-> NoResponse]
        ELSE [handlers |-> [k \in DOMAIN handlers_ \cup {event_type.s} |->
                               IF k = event_type.s THEN inserted ELSE handlers_[k]],
              error |-> "none",
              value |-> [status |-> "registered", event_type |-> event_type.s,
                         handler_count |-> Len(inserted), priority |-> priority]]

\* the params dicts a client sends: each key present or left out
Missing == [type |-> "missing", s |-> "", n |-> 0]

EventTypeArgs == {PyStr("order"), PyStr("tick"), PyStr(""), PyInt(7), Missing}
CallbackArgs == {PyFunction("on_event"), PyNone, Missing}
PriorityArgs == {PyInt(1), PyInt(2), Missing}

Params(event_type, callback, priority) ==
    LET all == [k \in {"event_type", "callback", "priority"} |->
                   CASE k = "event_type" -> event_type
                     [] k = "callback" -> callback
                     [] OTHER -> priority]
    IN  [k \in {x \in DOMAIN all : all[x] # Missing} |-> all[k]]

RegisterParams ==
    {Params(e, c, p) : e \in EventTypeArgs, c \in CallbackArgs, p \in PriorityArgs}

VARIABLES
    handlers,      \* self.handlers of the EventEngineMCP instance
    registration,  \* the last register_handler call: params, outcome, handlers before
    nregister      \* register_handler calls made so far

event_vars == <<handlers, registration, nregister>>

NoRegistration ==
    [params |-> NoDict, error |-> "none", value |-> NoResponse, before |-> <<>>]

\* EventEngineMCP.__init__
EventEngineMCP_init ==
    /\ handlers = <<>>
    /\ registration = NoRegistration
    /\ nregister = 0

(***************************************************************************)
(* src/trade_signal.py: TradeSignal.  Times are seconds on the clock that  *)
(* datetime.now() reads; None is the empty tuple and a datetime t is <<t>>. *)
(***************************************************************************)
signal_cooldown == 60

NoSignal == [generated_at |-> 0]

\* _check_rate_limit at time t: the exception it raises, or "none"
check_rate_limit(last_signal_time_, t) ==
    IF last_signal_time_ # <<>> /\ t - last_signal_time_[1] < signal_cooldown
    THEN "SignalGenerationError"
    ELSE "none"

\* mutant: the time of the signal noted on entry, before validation and generation
generate_signal_time_first(last_signal_time_, entered, finished, valid, generated) ==
    LET limited == check_rate_limit(last_signal_time_, entered)
    IN  IF limited # "none"
        THEN [last_signal_time |-> last_signal_time_, error |-> limited,
              message |-> "Rate limit exceeded", validated |-> FALSE,
              generator_called |-> FALSE, value |-> NoSignal]
        ELSE IF ~valid
        THEN [last_signal_time |-> <<entered>>, error |-> "InvalidParameterError",
              message |-> "Invalid parameters", validated |-> TRUE,
              generator_called |-> FALSE, value |-> NoSignal]
        ELSE IF generated # "ok"
        THEN [last_signal_time |-> <<entered>>, error |-> "SignalGenerationError",
              message |-> IF generated = "SignalGenerationError"
                          THEN "raised by the generator" ELSE "Signal generation failed",
              validated |-> TRUE, generator_called |-> TRUE, value |-> NoSignal]
        ELSE [last_signal_time |-> <<entered>>, error |-> "none", message |-> "",
              validated |-> TRUE, generator_called |-> TRUE,
              value |-> [generated_at |-> entered]]

\* generate_signal(params), entered at time `entered`; `valid` is whether
\* _validate_input_parameters accepts params, `generated` is what
\* self.generator.generate does ("ok", or the exception it raises), and
\* `finished` is the time datetime.now() reads once the signal is generated
generate_signal(last_signal_time_, entered, finished, valid, generated) ==
    LET limited == check_rate_limit(last_signal_time_, entered)
    IN  IF limited # "none"
        THEN [last_signal_time |-> last_signal_time_, error |-> limited,
              message |-> "Rate limit exceeded", validated |-> FALSE,
              generator_called |-> FALSE, value |-> NoSignal]
        ELSE IF ~valid
        THEN [last_signal_time |-> last_signal_time_, error |-> "InvalidParameterError",
              message |-> "Invalid parameters", validated |-> TRUE,
              generator_called |-> FALSE, value |-> NoSignal]
        ELSE IF generated # "ok"
        THEN [last_signal_time |-> last_signal_time_, error |-> "SignalGenerationError",
              message |-> IF generated = "SignalGenerationError"
                          THEN "raised by the generator" ELSE "Signal generation failed",
              validated |-> TRUE, generator_called |-> TRUE, value |-> NoSignal]
        ELSE [last_signal_time |-> <<finished>>, error |-> "none", message |-> "",
              validated |-> TRUE, generator_called |-> TRUE,
              value |-> [generated_at |-> finished]]

\* what self.generator.generate can do
GeneratorOutcomes == {"ok", "SignalGenerationError", "Exception"}

VARIABLES
    last_signal_time,  \* self.last_signal_time of the TradeSignal instance
    now,               \* the clock datetime.now() reads
    generation,        \* the last generate_signal call and its outcome
    signals            \* <<entered, generated_at>> of the successful calls, in order

trade_vars == <<last_signal_time, now, generation, signals>>

NoGeneration ==
    [op |-> "none", entered |-> 0, finished |-> 0, valid |-> FALSE, generated |-> "ok",
     before |-> <<>>, error |-> "none", message |-> "", validated |-> FALSE,
     generator_called |-> FALSE, value |-> NoSignal]

\* TradeSignal.__init__
TradeSignal_init ==
    /\ last_signal_time = <<>>
    /\ now = 0
    /\ generation = NoGeneration
    /\ signals = <<>>

(***************************************************************************)
(* src/profiler_MCP.py: ProfilerMCP.  self.profiler is None, the empty     *)
(* tuple, or a cProfile.Profile object <<[enabled |-> ...]>>; the methods   *)
(* take the attributes as the record p and return them with the response.  *)
(***************************************************************************)
NoParams == <<>>

Response(status, message) ==
    [status |-> status, message |-> message, params |-> NoParams, duration |-> 0]

\* start_profiling at time t; enable is what cProfile.Profile.enable() does:
\* "ok", or the exception it raises (ValueError when another profiling tool
\* is active in the process)
start_profiling(p, t, enable) ==
    IF p.profiler = <<>>
    THEN IF enable = "ok"
         THEN LET params == [start_timestamp |-> t, sampling_interval |-> "0.1",
                             include_memory |-> TRUE]
              IN  [self |-> [profiler |-> <<[enabled |-> TRUE]>>,
                             start_time |-> t,
                             profile_data |->
                                 [k \in DOMAIN p.profile_data \cup {"params"} |->
                                     IF k = "params" THEN params ELSE p.profile_data[k]]],
                   value |-> [Response("started", "") EXCEPT !.params = <<params>>]]
         ELSE [self |-> [p EXCEPT !.profiler = <<[enabled |-> FALSE]>>],
               value |-> Response("error", "Failed to start profiler")]
    ELSE [self |-> p, value |-> Response("error", "Profiler already running")]

\* clear_profile_data
clear_profile_data(p) ==
    [self |-> [profiler |-> <<>>, start_time |-> 0, profile_data |-> <<>>],
     value |-> Response("success", "Profiler data cleared")]

\* get_profile_status at time t
get_profile_status(p, t) ==
    LET status == IF p.profiler # <<>> THEN "running" ELSE "stopped"
        duration == IF p.profiler # <<>> THEN t - p.start_time ELSE 0
    IN  [self |-> p,
         value |-> [status |-> status, message |-> "",
                    params |-> IF "params" \in DOMAIN p.profile_data
                               THEN <<p.profile_data["params"]>> ELSE NoParams,
                    duration |-> duration]]

\* save_profile_data(filename); dump is what self.profiler.dump_stats does:
\* "ok" (the file is written, after create_stats has disabled the profiler),
\* or "OSError" (the file cannot be opened)
save_profile_data(p, dump) ==
    IF p.profiler = <<>>
    THEN [self |-> p, value |-> Response("error", "No active profiler session to save")]
    ELSE IF dump = "ok"
    THEN [self |-> [p EXCEPT !.profiler = <<[enabled |-> FALSE]>>],
          value |-> Response("success", "Profile data saved")]
    ELSE [self |-> p, value |-> Response("error", "Failed to save profile data")]

VARIABLES
    profiler,      \* self.profiler of the ProfilerMCP instance
    start_time,    \* self.start_time
    profile_data,  \* self.profile_data
    time_time,     \* the clock time.time() reads
    request,       \* the last endpoint call: its name, response and the attributes before
    session,       \* whether a start_profiling succeeded and no clear_profile_data followed
    nrequests      \* endpoint calls made so far

profiler_vars ==
    <<profiler, start_time, profile_data, time_time, request, session, nrequests>>

ProfilerSelf == [profiler |-> profiler, start_time |-> start_time,
                 profile_data |-> profile_data]

NoRequest ==
    [op |-> "none", value |-> Response("none", ""),
     before |-> [profiler |-> <<>>, start_time |-> 0, profile_data |-> <<>>]]

\* ProfilerMCP.__init__
ProfilerMCP_init ==
    /\ profiler = <<>>
    /\ start_time = 0
    /\ profile_data = <<>>
    /\ time_time = 1
    /\ request = NoRequest
    /\ session = FALSE
    /\ nrequests = 0

(***************************************************************************)
(* src/quantum_decision/qnn_transformer.py: QuantumAttention.  The module  *)
(* uses the name np without importing it: np_bound says whether the        *)
(* program that imports the module has bound numpy to that name.  An       *)
(* array is a tuple of fractions <<numerator, denominator>>.               *)
(***************************************************************************)
cognitive_dropout == <<3, 10>>

Fraction(num, den) == IF num = 0 THEN <<0, 1>> ELSE <<num, den>>

\* QuantumAttention(n_heads): the attributes of the instance ("training" is
\* not among them), or the NameError of initialize_quantum_weights
QuantumAttention(n_heads, np_bound_) ==
    IF n_heads > 0 /\ ~np_bound_
    THEN [error |-> "NameError", attributes |-> <<>>]
    ELSE [error |-> "none",
          attributes |-> [k \in {"n_heads", "entangled_weights", "cognitive_dropout"} |->
                             CASE k = "n_heads" -> PyInt(n_heads)
                               [] k = "entangled_weights" -> PyInt(n_heads)
                               [] OTHER -> PyStr("0.3")]]

\* states * mask / (1 - self.cognitive_dropout), x an integer-valued entry
dropped(x, m) ==
    Fraction(x[1] * m * cognitive_dropout[2],
             x[2] * (cognitive_dropout[2] - cognitive_dropout[1]))

\* apply_cognitive_dropout(states); mask is what np.random.binomial draws
apply_cognitive_dropout(attributes, states, mask, np_bound_) ==
    IF "training" \notin DOMAIN attributes
    THEN [error |-> "AttributeError", value |-> <<>>]
    ELSE IF truthy(attributes["training"])
    THEN IF ~np_bound_
         THEN [error |-> "NameError", value |-> <<>>]
         ELSE [error |-> "none",
               value |-> [i \in 1..Len(states) |-> dropped(states[i], mask[i])]]
    ELSE [error |-> "none", value |-> states]

\* the arrays a caller passes
DropoutStates == {<<<<1, 1>>, <<0, 1>>>>, <<<<7, 1>>, <<-7, 1>>>>, <<<<3, 1>>, <<7, 1>>>>}

VARIABLES
    np_bound,   \* whether the name np is bound in the module
    attention,  \* the attributes of the QuantumAttention instance, <<>> before construction
    dropout     \* the last call on the instance and its outcome

attention_vars == <<np_bound, attention, dropout>>

NoDropout ==
    [op |-> "none", states |-> <<>>, mask |-> <<>>, error |-> "none", value |-> <<>>,
     calls |-> 0]

\* before QuantumAttention is constructed
QuantumAttention_none ==
    /\ attention = <<>>
    /\ dropout = NoDropout

(***************************************************************************)
(* The system: one QuantumGates instance and a caller that holds a state   *)
(* vector, passes it to one method after another and keeps what is         *)
(* returned; a measurement consumes the state, and a caller whose last two *)
(* calls both raised gives up.                                             *)
(***************************************************************************)
VARIABLES
    self,     \* the attributes of the instance
    q_state,  \* the state vector the caller holds
    call,     \* the last call: its method and scalar arguments
    passed,   \* the tensors passed to the last call, as they were at the call
    after,    \* the same tensors as they are after the call
    ret,      \* what the last call returned or raised
    result,   \* the dictionary the last measure returned
    outcomes, \* the samples torch.multinomial drew in the last measure
    prev,     \* call, passed and ret of the call before the last
    ncalls    \* calls made so far

quantum_vars == <<self, q_state, call, passed, after, ret, result, outcomes, prev, ncalls>>

vars == <<quantum_vars, event_vars, trade_vars, profiler_vars, attention_vars>>

NoCall == [op |-> "none", angle |-> 0, axis |-> "", shots |-> 0]

Op(name) == [NoCall EXCEPT !.op = name]

Init ==
    /\ self = QuantumGates
    /\ q_state \in States
    /\ call = NoCall
    /\ passed = <<>>
    /\ after = <<>>
    /\ ret = Value(None)
    /\ result = EmptyDict
    /\ outcomes = <<>>
    /\ prev = [call |-> NoCall, passed |-> <<>>, ret |-> Value(None)]
    /\ ncalls = 0
    /\ EventEngineMCP_init
    /\ TradeSignal_init
    /\ ProfilerMCP_init
    /\ QuantumAttention_none
    /\ np_bound = FALSE

CanCall ==
    /\ ncalls < MaxCalls
    /\ call.op \notin {"measure", "measure_bell"}
    /\ ~(ret.error # "none" /\ prev.ret.error # "none")

\* the caller makes call c with tensors args; eff is the effect of the method
Returns(c, args, eff) ==
    /\ CanCall
    /\ self' = eff.self
    /\ call' = c
    /\ passed' = args
    /\ after' = eff.args
    /\ prev' = [call |-> call, passed |-> passed, ret |-> ret]
    /\ ncalls' = ncalls + 1
    /\ UNCHANGED <<event_vars, trade_vars, profiler_vars, attention_vars>>

\* a gate call: the caller keeps the state returned, or its own after an exception
Gate(c, args, eff) ==
    /\ Returns(c, args, eff)
    /\ ret' = [error |-> eff.error, value |-> eff.value]
    /\ q_state' = IF eff.error = "none" THEN eff.value
                  ELSE IF eff.args = <<>> THEN q_state ELSE eff.args[1]
    /\ result' = EmptyDict
    /\ outcomes' = <<>>

ApplyHadamard == Gate(Op("apply_hadamard"), <<q_state>>, apply_hadamard(self, q_state))

ApplyPauliX == Gate(Op("apply_pauli_x"), <<q_state>>, apply_pauli_x(self, q_state))

ApplyPauliY == Gate(Op("apply_pauli_y"), <<q_state>>, apply_pauli_y(self, q_state))

ApplyPauliZ == Gate(Op("apply_pauli_z"), <<q_state>>, apply_pauli_z(self, q_state))

ApplySGate == Gate(Op("apply_s_gate"), <<q_state>>, apply_s_gate(self, q_state))

ApplyTGate == Gate(Op("apply_t_gate"), <<q_state>>, apply_t_gate(self, q_state))

ApplyRotation ==
    \E a \in RotationArgs :
        Gate([Op("apply_rotation") EXCEPT !.angle = a[1], !.axis = a[2]],
             <<q_state>>, apply_rotation(self, q_state, a[1], a[2]))

ApplyPhase ==
    \E phase \in Phases :
        Gate([Op("apply_phase") EXCEPT !.angle = phase],
             <<q_state>>, apply_phase(self, q_state, phase))

ApplyCnot == Gate(Op("apply_cnot"), <<q_state>>, apply_cnot(self, q_state))

ApplySwap == Gate(Op("apply_swap"), <<q_state>>, apply_swap(self, q_state))

ApplyControlledU ==
    \E u \in UMatrices :
        Gate(Op("apply_controlled_u"), <<q_state, u>>, apply_controlled_u(self, q_state, u))

ApplyToffoli == Gate(Op("apply_toffoli"), <<q_state>>, apply_toffoli(self, q_state))

ApplyCustomGate ==
    \E m \in CustomMatrices :
        Gate(Op("apply_custom_gate"), <<q_state, m>>, apply_custom_gate(self, q_state, m))

ApplyGroverDiffusion ==
    Gate(Op("apply_grover_diffusion"), <<q_state>>, apply_grover_diffusion(self, q_state))

CreateBellState == Gate(Op("create_bell_state"), <<>>, create_bell_state(self))

\* the tensors multinomial may return for this call, or one placeholder when it raises
Samples(state, shots) ==
    IF multinomial_raises(torch_abs2(state), shots) THEN {<<>>}
    ELSE multinomial(torch_abs2(state), shots)

Measured(c, args, drawn, eff) ==
    /\ Returns(c, args, eff)
    /\ outcomes' = drawn
    /\ ret' = [error |-> eff.error, value |-> None]
    /\ result' = eff.value
    /\ q_state' = q_state

Measure ==
    \E shots \in ShotCounts :
        \E drawn \in Samples(q_state, shots) :
            Measured([Op("measure") EXCEPT !.shots = shots], <<q_state>>, drawn,
                     measure(self, q_state, shots, drawn))

\* measure(create_bell_state(), shots): the argument is evaluated first
MeasureBell ==
    \E shots \in ShotCounts :
        LET bell == create_bell_state(self)
        IN  \E drawn \in (IF bell.error = "none" THEN Samples(bell.value, shots) ELSE {<<>>}) :
                Measured([Op("measure_bell") EXCEPT !.shots = shots], <<>>, drawn,
                         IF bell.error = "none"
                         THEN measure(bell.self, bell.value, shots, drawn)
                         ELSE [bell EXCEPT !.value = EmptyDict])

Next ==
    \/ ApplyHadamard
    \/ ApplyPauliX
    \/ ApplyPauliY
    \/ ApplyPauliZ
    \/ ApplySGate
    \/ ApplyTGate
    \/ ApplyRotation
    \/ ApplyPhase
    \/ ApplyCnot
    \/ ApplySwap
    \/ ApplyControlledU
    \/ ApplyToffoli
    \/ ApplyCustomGate
    \/ ApplyGroverDiffusion
    \/ CreateBellState
    \/ Measure
    \/ MeasureBell

Spec == Init /\ [][Next]_vars

(***************************************************************************)
(* The other components are each run on their own; the rest stays as it    *)
(* is constructed.                                                         *)
(***************************************************************************)
QuantumGates_init ==
    /\ self = QuantumGates
    /\ q_state = Basis(2, 0)
    /\ call = NoCall
    /\ passed = <<>>
    /\ after = <<>>
    /\ ret = Value(None)
    /\ result = EmptyDict
    /\ outcomes = <<>>
    /\ prev = [call |-> NoCall, passed |-> <<>>, ret |-> Value(None)]
    /\ ncalls = 0

(***************************************************************************)
(* EventEngineMCP: clients register handlers.                              *)
(***************************************************************************)
EventInit ==
    /\ EventEngineMCP_init
    /\ QuantumGates_init
    /\ TradeSignal_init
    /\ ProfilerMCP_init
    /\ QuantumAttention_none
    /\ np_bound = FALSE

RegisterHandler ==
    /\ nregister < MaxRegistrations
    /\ \E params \in RegisterParams :
        LET eff == register_handler(handlers, params)
        IN  /\ handlers' = eff.handlers
            /\ registration' = [params |-> params, error |-> eff.error,
                                value |-> eff.value, before |-> handlers]
    /\ nregister' = nregister + 1
    /\ UNCHANGED <<quantum_vars, trade_vars, profiler_vars, attention_vars>>

EventNext == RegisterHandler

EventSpec == EventInit /\ [][EventNext]_vars

(***************************************************************************)
(* TradeSignal: clients call generate_signal while the clock advances; a   *)
(* call that reaches the generator may take time.                          *)
(***************************************************************************)
TradeInit ==
    /\ TradeSignal_init
    /\ QuantumGates_init
    /\ EventEngineMCP_init
    /\ ProfilerMCP_init
    /\ QuantumAttention_none
    /\ np_bound = FALSE

GenerateSignal ==
    \E valid \in BOOLEAN, generated \in GeneratorOutcomes, taken \in {0, TimeStep} :
        LET eff == generate_signal(last_signal_time, now, now + taken, valid, generated)
        IN  /\ now + taken <= MaxTime
            /\ taken > 0 => eff.generator_called
            /\ last_signal_time' = eff.last_signal_time
            /\ now' = now + taken
            /\ generation' = [op |-> "generate_signal", entered |-> now,
                              finished |-> now + taken, valid |-> valid,
                              generated |-> generated, before |-> last_signal_time,
                              error |-> eff.error, message |-> eff.message,
                              validated |-> eff.validated,
                              generator_called |-> eff.generator_called,
                              value |-> eff.value]
            /\ signals' = IF eff.error = "none"
                          THEN Append(signals, <<now, now + taken>>) ELSE signals
            /\ UNCHANGED <<quantum_vars, event_vars, profiler_vars, attention_vars>>

Tick ==
    /\ now + TimeStep <= MaxTime
    /\ now' = now + TimeStep
    /\ UNCHANGED <<last_signal_time, generation, signals>>
    /\ UNCHANGED <<quantum_vars, event_vars, profiler_vars, attention_vars>>

TradeNext == GenerateSignal \/ Tick

TradeSpec == TradeInit /\ [][TradeNext]_vars

(***************************************************************************)
(* ProfilerMCP: clients call the endpoints; the clock may advance after a  *)
(* call.                                                                   *)
(***************************************************************************)
ProfilerInit ==
    /\ ProfilerMCP_init
    /\ QuantumGates_init
    /\ EventEngineMCP_init
    /\ TradeSignal_init
    /\ QuantumAttention_none
    /\ np_bound = FALSE

\* the endpoint op was called and eff is what it did
Requested(op, eff, started, cleared) ==
    /\ nrequests < MaxRequests
    /\ profiler' = eff.self.profiler
    /\ start_time' = eff.self.start_time
    /\ profile_data' = eff.self.profile_data
    /\ request' = [op |-> op, value |-> eff.value, before |-> ProfilerSelf]
    /\ session' = IF started THEN TRUE ELSE IF cleared THEN FALSE ELSE session
    /\ nrequests' = nrequests + 1
    /\ \E passes \in {0, 1} : time_time' = time_time + passes
    /\ UNCHANGED <<quantum_vars, event_vars, trade_vars, attention_vars>>

StartProfiling ==
    \E enable \in {"ok", "ValueError"} :
        LET eff == start_profiling(ProfilerSelf, time_time, enable)
        IN  Requested("start_profiling", eff, eff.value.status = "started", FALSE)

ClearProfileData ==
    LET eff == clear_profile_data(ProfilerSelf)
    IN  Requested("clear_profile_data", eff, FALSE, eff.value.status = "success")

GetProfileStatus ==
    Requested("get_profile_status", get_profile_status(ProfilerSelf, time_time),
              FALSE, FALSE)

SaveProfileData ==
    \E dump \in {"ok", "OSError"} :
        Requested("save_profile_data", save_profile_data(ProfilerSelf, dump), FALSE, FALSE)

ProfilerNext ==
    \/ StartProfiling
    \/ ClearProfileData
    \/ GetProfileStatus
    \/ SaveProfileData

ProfilerSpec == ProfilerInit /\ [][ProfilerNext]_vars

(***************************************************************************)
(* QuantumAttention: a caller constructs an instance, may set the training *)
(* attribute on it, and calls apply_cognitive_dropout.                     *)
(***************************************************************************)
AttentionInit ==
    /\ np_bound \in BOOLEAN
    /\ QuantumAttention_none
    /\ QuantumGates_init
    /\ EventEngineMCP_init
    /\ TradeSignal_init
    /\ ProfilerMCP_init

AttentionCalled(op, states, mask, eff) ==
    /\ dropout.calls < MaxDropoutCalls
    /\ dropout' = [op |-> op, states |-> states, mask |-> mask, error |-> eff.error,
                   value |-> eff.value, calls |-> dropout.calls + 1]
    /\ UNCHANGED <<np_bound, quantum_vars, event_vars, trade_vars, profiler_vars>>

Construct ==
    \E n_heads \in {0, 1} :
        LET made == QuantumAttention(n_heads, np_bound)
        IN  /\ attention' = IF made.error = "none" THEN <<made.attributes>> ELSE <<>>
            /\ AttentionCalled("QuantumAttention", <<>>, <<>>,
                               [error |-> made.error, value |-> <<>>])

\* the caller's assignment instance.training = flag
SetTraining ==
    /\ attention # <<>>
    /\ \E flag \in BOOLEAN :
        attention' = <<[k \in DOMAIN attention[1] \cup {"training"} |->
                          IF k = "training" THEN PyBool(flag) ELSE attention[1][k]]>>
    /\ AttentionCalled("training", <<>>, <<>>, [error |-> "none", value |-> <<>>])

ApplyCognitiveDropout ==
    /\ attention # <<>>
    /\ \E states \in DropoutStates, mask \in [1..2 -> {0, 1}] :
        AttentionCalled("apply_cognitive_dropout", states, mask,
                        apply_cognitive_dropout(attention[1], states, mask, np_bound))
    /\ UNCHANGED attention

AttentionNext ==
    \/ Construct
    \/ SetTraining
    \/ ApplyCognitiveDropout

AttentionSpec == AttentionInit /\ [][AttentionNext]_vars

(***************************************************************************)
(* Properties.                                                             *)
(***************************************************************************)
GateOps ==
    {"apply_hadamard", "apply_pauli_x", "apply_pauli_y", "apply_pauli_z",
     "apply_s_gate", "apply_t_gate", "apply_rotation", "apply_phase", "apply_cnot",
     "apply_swap", "apply_controlled_u", "apply_toffoli", "apply_custom_gate",
     "apply_grover_diffusion"}

Succeeded == ret.error = "none"

\* the caller holds a state it has just been given: its initial one, or the one
\* the last gate call returned
Fresh == call.op = "none" \/ (call.op \in GateOps /\ Succeeded)

\* C1: after every gate call, whatever was called before, the state (and the
\* matrix) passed in holds the values it held at the call, and a successful
\* call hands back a state vector of its own.
C1_InputsUnchanged ==
    call.op \in GateOps =>
        /\ after = passed
        /\ Succeeded => ret.value # None /\ q_state = ret.value

C1_Witness ==
    /\ call.op = "apply_controlled_u"
    /\ prev.call.op = "apply_grover_diffusion"
    /\ prev.ret.error = "none"
    /\ Succeeded
    /\ ret.value # passed[1]
    /\ after = passed

\* C2: in every reachable state the gate library of the instance holds the
\* matrices __init__ gave it.
C2_LibraryConstant ==
    /\ self.hadamard_matrix = init_hadamard_matrix
    /\ self.pauli_x = init_pauli_x
    /\ self.pauli_y = init_pauli_y
    /\ self.pauli_z = init_pauli_z
    /\ self.identity = init_identity
    /\ self.s_gate = init_s_gate
    /\ self.t_gate = init_t_gate
    /\ self.cnot = init_cnot
    /\ self.swap = init_swap

C2_Witness ==
    /\ call.op = "apply_grover_diffusion"
    /\ prev.call.op = "apply_controlled_u"
    /\ prev.passed[2] = NonUnitary2
    /\ prev.ret.error = "none"
    /\ Succeeded
    /\ self = QuantumGates

\* C3: measure(create_bell_state(), shots) with shots > 0 returns a histogram
\* whose labels are among "00" and "11".
C3_BellLabels ==
    (call.op = "measure_bell" /\ call.shots > 0) =>
        /\ Succeeded
        /\ DOMAIN result \subseteq {"00", "11"}

\* C4: create_bell_state() completes and returns four amplitudes, of squared
\* magnitude 1/2 at indices 0 and 3 and zero at indices 1 and 2.
C4_BellState ==
    call.op = "create_bell_state" =>
        /\ Succeeded
        /\ ret.value.shape = <<4>>
        /\ CAbs2(ret.value.data[1]) = Half
        /\ CAbs2(ret.value.data[4]) = Half
        /\ ret.value.data[2] = Zero
        /\ ret.value.data[3] = Zero

\* C5: Toffoli maps basis state 6 to 7, 7 to 6 and each of 0..5 to itself.
CCNot(i) == IF i = 6 THEN 7 ELSE IF i = 7 THEN 6 ELSE i

C5_ToffoliTruthTable ==
    \A i \in 0..7 :
        (call.op = "apply_toffoli" /\ passed[1] = Basis(8, i)) =>
            /\ Succeeded
            /\ ret.value = Basis(8, CCNot(i))

C5_Witness ==
    /\ call.op = "apply_toffoli"
    /\ passed[1] = Basis(8, 6)
    /\ ret.value = Basis(8, 7)

\* C6: two calls of apply_hadamard in a row on a normalized 2-amplitude state
\* return that state; and so does applying it twice to any normalized
\* 2-amplitude state the caller is given.
IsState(t, n) == t.shape = <<n>>

C6_HadamardInvolution ==
    /\ (/\ call.op = "apply_hadamard"
        /\ prev.call.op = "apply_hadamard"
        /\ IsState(prev.passed[1], 2)
        /\ Normalized(prev.passed[1]))
       => /\ passed[1] = prev.ret.value
          /\ Succeeded
          /\ ret.value = prev.passed[1]
    /\ (Fresh /\ IsState(q_state, 2) /\ Normalized(q_state))
       => apply_hadamard(self, apply_hadamard(self, q_state).value).value = q_state

C6_Witness ==
    /\ call.op = "apply_hadamard"
    /\ prev.call.op = "apply_hadamard"
    /\ IsState(prev.passed[1], 2)
    /\ Normalized(prev.passed[1])
    /\ passed[1] # prev.passed[1]
    /\ ret.value = prev.passed[1]
    /\ prev.passed[1].data[2] # Zero

\* C7: two calls of apply_cnot in a row on a 4-amplitude state return that
\* state, and so do two calls of apply_swap; the same holds of applying either
\* twice to any 4-amplitude state the caller is given.
TwiceReturns(op) ==
    (/\ call.op = op
     /\ prev.call.op = op
     /\ IsState(prev.passed[1], 4))
    => /\ passed[1] = prev.ret.value
       /\ Succeeded
       /\ ret.value = prev.passed[1]

C7_CnotSwapInvolution ==
    /\ TwiceReturns("apply_cnot")
    /\ TwiceReturns("apply_swap")
    /\ (Fresh /\ IsState(q_state, 4)) =>
        /\ apply_cnot(self, apply_cnot(self, q_state).value).value = q_state
        /\ apply_swap(self, apply_swap(self, q_state).value).value = q_state

C7_Witness ==
    /\ call.op = "apply_cnot"
    /\ prev.call.op = "apply_cnot"
    /\ IsState(prev.passed[1], 4)
    /\ passed[1] # prev.passed[1]
    /\ ret.value = prev.passed[1]

\* C8: a fixed-library gate applied to a normalized state of its dimension
\* returns a normalized state.
FixedGates2 ==
    {"apply_hadamard", "apply_pauli_x", "apply_pauli_y", "apply_pauli_z",
     "apply_s_gate", "apply_t_gate"}

FixedGates4 == {"apply_cnot", "apply_swap"}

C8_NormPreserved ==
    (/\ \/ call.op \in FixedGates2 /\ IsState(passed[1], 2)
        \/ call.op = "apply_custom_gate" /\ passed[2] = self.identity /\ IsState(passed[1], 2)
        \/ call.op \in FixedGates4 /\ IsState(passed[1], 4)
     /\ Normalized(passed[1]))
    => /\ Succeeded
       /\ Normalized(ret.value)

C8_Witness ==
    /\ call.op = "apply_t_gate"
    /\ prev.call.op = "apply_hadamard"
    /\ prev.ret.error = "none"
    /\ IsState(passed[1], 2)
    /\ Normalized(passed[1])
    /\ Normalized(ret.value)
    /\ ret.value # passed[1]

\* C9 as stated: apply_rotation with an axis label other than "x", "y" or "z"
\* raises the invalid-argument error.
C9_AnyOtherLabelRaises ==
    (call.op = "apply_rotation" /\ call.axis \notin {"x", "y", "z"}) =>
        ret.error = "ValueError"

\* C9 amended: apply_rotation with an axis label that is none of "x", "y", "z"
\* in either letter case raises the invalid-argument error, returns no state
\* and leaves the caller's state as it was.
C9_UnknownAxisRaises ==
    (call.op = "apply_rotation" /\ call.axis \notin {"x", "y", "z", "X", "Y", "Z"}) =>
        /\ ret.error = "ValueError"
        /\ ret.value = None
        /\ q_state = passed[1]

C9_Witness ==
    /\ call.op = "apply_rotation"
    /\ call.axis = "w"
    /\ ret.error = "ValueError"
    /\ IsState(passed[1], 2)

\* C10: for a state with a non-zero amplitude and shots > 0, the histogram of
\* measure has exactly the labels of the indices drawn, each mapped to
\* count / shots with 0 < count <= shots, and the counts add up to shots.
RECURSIVE SumCounts(_, _)
SumCounts(d, keys) ==
    IF keys = {} THEN 0
    ELSE LET k == CHOOSE x \in keys : TRUE
         IN  d[k][1] + SumCounts(d, keys \ {k})

Drawn == {outcomes[k] : k \in DOMAIN outcomes}

LabelOf(i) == format_b(i, ILog2(passed[1].shape[1]))

C10_Histogram ==
    (/\ call.op = "measure"
     /\ call.shots > 0
     /\ \E n \in 1..Len(passed[1].data) : passed[1].data[n] # Zero)
    => /\ Succeeded
       /\ DOMAIN result = {LabelOf(i) : i \in Drawn}
       /\ \A i \in Drawn :
            /\ result[LabelOf(i)] = <<count_eq(outcomes, i), call.shots>>
            /\ 0 < result[LabelOf(i)][1]
            /\ result[LabelOf(i)][1] <= result[LabelOf(i)][2]
       /\ SumCounts(result, DOMAIN result) = call.shots

C10_Witness ==
    /\ call.op = "measure"
    /\ call.shots = 2
    /\ ~Normalized(passed[1])
    /\ Cardinality(DOMAIN result) = 2
    /\ SumCounts(result, DOMAIN result) = 2

\* C11: measure reports no outcome of probability zero: the label of an index
\* whose amplitude is zero is absent from the histogram, and a basis state
\* (one amplitude of magnitude 1, the others 0) measured with shots > 0 gives
\* exactly the label of that index, with frequency 1.
Indices(t) == 0..(Len(t.data) - 1)

IsBasisState(t) ==
    /\ Len(t.shape) = 1
    /\ \E i \in Indices(t) :
        /\ CAbs2(t.data[i + 1]) = One
        /\ \A j \in Indices(t) \ {i} : t.data[j + 1] = Zero

C11_NoZeroProbabilityOutcome ==
    /\ (call.op = "measure" /\ Succeeded) =>
        \A i \in Indices(passed[1]) :
            passed[1].data[i + 1] = Zero => LabelOf(i) \notin DOMAIN result
    /\ (call.op = "measure" /\ call.shots > 0 /\ IsBasisState(passed[1])) =>
        /\ Succeeded
        /\ \E i \in Indices(passed[1]) :
            /\ passed[1].data[i + 1] # Zero
            /\ DOMAIN result = {LabelOf(i)}
            /\ result[LabelOf(i)] = <<call.shots, call.shots>>

C11_Witness ==
    /\ call.op = "measure"
    /\ call.shots = 2
    /\ passed[1] = Basis(8, 6)
    /\ DOMAIN result = {"110"}
    /\ result["110"] = <<2, 2>>

\* C12: for a state of length 2^n, n >= 1, every label of the histogram is the
\* n-character binary numeral of a drawn index, so all labels are n characters
\* wide and distinct indices have distinct labels.
RECURSIVE BinaryNumeral(_, _)
BinaryNumeral(i, n) ==
    IF n = 0 THEN "" ELSE BinaryNumeral(i \div 2, n - 1) \o Bit(i % 2)

IsRegister(t) ==
    /\ Len(t.shape) = 1
    /\ t.shape[1] >= 2
    /\ Pow2(ILog2(t.shape[1])) = t.shape[1]

C12_Labels ==
    (call.op = "measure" /\ Succeeded /\ IsRegister(passed[1])) =>
        /\ DOMAIN result = {BinaryNumeral(i, ILog2(passed[1].shape[1])) : i \in Drawn}
        /\ \A l \in DOMAIN result : Len(l) = ILog2(passed[1].shape[1])
        /\ Cardinality(DOMAIN result) = Cardinality(Drawn)

C12_Witness ==
    /\ call.op = "measure"
    /\ Succeeded
    /\ IsState(passed[1], 4)
    /\ DOMAIN result = {"00", "01"}

\* C13: measure with shots <= 0 raises at the call (torch.multinomial's
\* RuntimeError for a sample count that is not positive) and returns no histogram.
C13_NonPositiveShots ==
    (call.op = "measure" /\ call.shots <= 0) =>
        /\ ret.error = "RuntimeError"
        /\ result = EmptyDict
        /\ q_state = passed[1]

C13_Witness ==
    /\ call.op = "measure"
    /\ call.shots = 0
    /\ Normalized(passed[1])
    /\ ret.error = "RuntimeError"
    /\ prev.call.op = "apply_hadamard"

\* C14: a gate applied to a one-dimensional state whose length differs from
\* the dimension of the gate raises at that call (torch.matmul's RuntimeError
\* for mismatched shapes), returns nothing, and the caller's state and the
\* arguments hold the values they held at the call.
GateDimension ==
    CASE call.op \in FixedGates2 \cup {"apply_rotation", "apply_phase"} -> 2
      [] call.op \in FixedGates4 \cup {"apply_controlled_u"} -> 4
      [] call.op = "apply_toffoli" -> 8
      [] call.op = "apply_custom_gate" -> passed[2].shape[1]
      [] OTHER -> 0

KnownAxis == call.op = "apply_rotation" => str_lower(call.axis) \in {"x", "y", "z"}

C14_DimensionMismatch ==
    (/\ call.op \in GateOps \ {"apply_grover_diffusion"}
     /\ KnownAxis
     /\ Len(passed[1].shape) = 1
     /\ passed[1].shape[1] # GateDimension)
    => /\ ret = Raised("RuntimeError")
       /\ after = passed
       /\ q_state = passed[1]

C14_Witness ==
    /\ call.op = "apply_toffoli"
    /\ prev.call.op = "apply_swap"
    /\ prev.ret.error = "none"
    /\ IsState(passed[1], 4)
    /\ ret = Raised("RuntimeError")
    /\ q_state = passed[1]

\* C15: apply_grover_diffusion of a normalized state of length 2^n, n >= 1,
\* returns a normalized state of the same length.
C15_GroverNormalized ==
    (/\ call.op = "apply_grover_diffusion"
     /\ IsRegister(passed[1])
     /\ Normalized(passed[1]))
    => /\ Succeeded
       /\ ret.value.shape = passed[1].shape
       /\ Normalized(ret.value)

C15_Witness ==
    /\ call.op = "apply_grover_diffusion"
    /\ prev.call.op = "apply_hadamard"
    /\ prev.ret.error = "none"
    /\ IsState(passed[1], 2)
    /\ Normalized(passed[1])
    /\ Succeeded
    /\ ret.value # passed[1]

\* C16: apply_rotation at angle 0 about x, y or z returns a state equal to the
\* 2-amplitude state it was given.
C16_RotationZero ==
    (/\ call.op = "apply_rotation"
     /\ call.angle = 0
     /\ call.axis \in {"x", "y", "z"}
     /\ IsState(passed[1], 2))
    => /\ Succeeded
       /\ ret.value = passed[1]

C16_Witness ==
    /\ call.op = "apply_rotation"
    /\ call.angle = 0
    /\ call.axis = "y"
    /\ prev.call.op = "apply_s_gate"
    /\ IsState(passed[1], 2)
    /\ passed[1].data[2] = ImagI
    /\ ret.value = passed[1]

\* C17: apply_rotation by 2 pi about z multiplies both amplitudes of a
\* 2-amplitude state by the same scalar of magnitude 1, namely -1, so the
\* probabilities are those of the state given.
C17_RotationTwoPi ==
    (/\ call.op = "apply_rotation"
     /\ call.angle = 8
     /\ call.axis = "z"
     /\ IsState(passed[1], 2))
    => /\ Succeeded
       /\ IsState(ret.value, 2)
       /\ \A n \in 1..2 : ret.value.data[n] = CMul(CNeg(One), passed[1].data[n])
       /\ torch_abs2(ret.value) = torch_abs2(passed[1])

C17_Witness ==
    /\ call.op = "apply_rotation"
    /\ call.angle = 8
    /\ call.axis = "z"
    /\ prev.call.op = "apply_hadamard"
    /\ prev.ret.error = "none"
    /\ IsState(passed[1], 2)
    /\ Succeeded
    /\ ret.value # passed[1]

\* C18: for a state s of length 2^n, n >= 1, amplitude i of
\* apply_grover_diffusion(s) is 2 * mean(s) - s_i, the reflection of s through
\* the uniform superposition.
C18_GroverReflection ==
    (call.op = "apply_grover_diffusion" /\ IsRegister(passed[1]))
    => /\ Succeeded
       /\ ret.value = two_m_minus(torch_mean(passed[1]), passed[1])

\* the matrix a fixed-gate call multiplies the state by
GateOf ==
    CASE call.op = "apply_hadamard" -> self.hadamard_matrix
      [] call.op = "apply_pauli_x" -> self.pauli_x
      [] call.op = "apply_pauli_y" -> self.pauli_y
      [] call.op = "apply_pauli_z" -> self.pauli_z
      [] call.op = "apply_s_gate" -> self.s_gate
      [] call.op = "apply_t_gate" -> self.t_gate
      [] call.op = "apply_cnot" -> self.cnot
      [] call.op = "apply_swap" -> self.swap
      [] OTHER -> self.identity

FixedGateCall ==
    \/ call.op \in FixedGates2 /\ IsState(passed[1], 2)
    \/ call.op = "apply_custom_gate" /\ passed[2] = self.identity /\ IsState(passed[1], 2)
    \/ call.op \in FixedGates4 /\ IsState(passed[1], 4)

Transpose(g) ==
    [shape |-> <<g.shape[2], g.shape[1]>>,
     data |-> [n \in 1..Len(g.data) |->
                  At(g, (n - 1) % g.shape[1], (n - 1) \div g.shape[1])]]

Conjugate(g) == [g EXCEPT !.data = [n \in 1..Len(g.data) |-> CConj(g.data[n])]]

\* g . s for the column vector s
LeftMultiply(g, s) ==
    Tensor1([i \in 1..g.shape[1] |->
                CSum([k \in 1..g.shape[2] |-> CMul(At(g, i - 1, k - 1), s.data[k])],
                     g.shape[2])])

IsReal(g) == Conjugate(g) = g

\* C19 as stated: for every fixed gate G and state s of its dimension, the
\* amplitudes of s.G are those of G^dagger.s, the conjugate transpose of G
\* multiplied from the left.
C19_ConjugateTransposed ==
    FixedGateCall =>
        /\ Succeeded
        /\ ret.value = LeftMultiply(Conjugate(Transpose(GateOf)), passed[1])

\* C19: for every fixed gate G and state s of its dimension, the amplitudes of
\* s.G are those of G^T.s, the transpose of G multiplied from the left; for the
\* gates with real entries this is G^dagger.s as well.
C19_Transposed ==
    FixedGateCall =>
        /\ Succeeded
        /\ ret.value = LeftMultiply(Transpose(GateOf), passed[1])
        /\ IsReal(GateOf) =>
               ret.value = LeftMultiply(Conjugate(Transpose(GateOf)), passed[1])

C19_Witness ==
    /\ call.op = "apply_s_gate"
    /\ prev.call.op = "apply_hadamard"
    /\ prev.ret.error = "none"
    /\ IsState(passed[1], 2)
    /\ Succeeded
    /\ ret.value = LeftMultiply(Transpose(self.s_gate), passed[1])
    /\ ret.value # LeftMultiply(Conjugate(Transpose(self.s_gate)), passed[1])

\* C20: apply_controlled_u(s, u) on a 4-amplitude state s and a 2x2 matrix u
\* returns (s0, s1, s2*u00 + s3*u10, s2*u01 + s3*u11), the product of s with
\* diag(I2, u); with u the Pauli-X matrix the call ends as apply_cnot(s) does.
C20_ControlledU ==
    /\ (/\ call.op = "apply_controlled_u"
        /\ IsState(passed[1], 4)
        /\ passed[2].shape = <<2, 2>>)
       => /\ Succeeded
          /\ IsState(ret.value, 4)
          /\ ret.value.data[1] = passed[1].data[1]
          /\ ret.value.data[2] = passed[1].data[2]
          /\ ret.value.data[3] = CAdd(CMul(passed[1].data[3], At(passed[2], 0, 0)),
                                      CMul(passed[1].data[4], At(passed[2], 1, 0)))
          /\ ret.value.data[4] = CAdd(CMul(passed[1].data[3], At(passed[2], 0, 1)),
                                      CMul(passed[1].data[4], At(passed[2], 1, 1)))
    /\ (call.op = "apply_controlled_u" /\ passed[2] = init_pauli_x)
       => /\ ret.error = apply_cnot(self, passed[1]).error
          /\ ret.value = apply_cnot(self, passed[1]).value

C20_Witness ==
    /\ call.op = "apply_controlled_u"
    /\ passed[2] = NonUnitary2
    /\ prev.call.op = "apply_swap"
    /\ prev.ret.error = "none"
    /\ IsState(passed[1], 4)
    /\ passed[1].data[3] # Zero
    /\ Succeeded
    /\ ret.value.data[4] = CAdd(passed[1].data[3], passed[1].data[4])

\* C21: the operator apply_grover_diffusion builds for a state of length 2^n,
\* n >= 1, is the n-fold Kronecker power of the Hadamard matrix: it is 2^n x 2^n,
\* its entry (i, j) is +1/sqrt(2^n) when i AND j has an even number of 1 bits and
\* -1/sqrt(2^n) otherwise, and the state returned is the one computed with it.
RECURSIVE AndParity(_, _)
AndParity(i, j) ==
    IF i = 0 \/ j = 0 THEN 0
    ELSE ((i % 2) * (j % 2) + AndParity(i \div 2, j \div 2)) % 2

RECURSIVE InvSqrt2Pow(_)
InvSqrt2Pow(n) == IF n = 0 THEN One ELSE CDivSqrt2(InvSqrt2Pow(n - 1))

WalshHadamard(n) ==
    [shape |-> <<Pow2(n), Pow2(n)>>,
     data |-> [m \in 1..(Pow2(n) * Pow2(n)) |->
                  IF AndParity((m - 1) \div Pow2(n), (m - 1) % Pow2(n)) = 0
                  THEN InvSqrt2Pow(n) ELSE CNeg(InvSqrt2Pow(n))]]

C21_WholeRegisterHadamard ==
    (call.op = "apply_grover_diffusion" /\ IsRegister(passed[1])) =>
        LET n == ILog2(passed[1].shape[1])
            h_n == grover_h_n(self, n - 1)
            first == matmul(passed[1], WalshHadamard(n)).value
        IN  /\ h_n.shape = <<passed[1].shape[1], passed[1].shape[1]>>
            /\ h_n = WalshHadamard(n)
            /\ Succeeded
            /\ ret.value = matmul(two_m_minus(torch_mean(first), first),
                                  WalshHadamard(n)).value

C21_Witness ==
    /\ call.op = "apply_grover_diffusion"
    /\ IsState(passed[1], 8)
    /\ Succeeded
    /\ grover_h_n(self, 2).shape = <<8, 8>>
    /\ At(grover_h_n(self, 2), 3, 5) = CNeg(InvSqrt2Pow(3))
    /\ At(grover_h_n(self, 2), 3, 4) = InvSqrt2Pow(3)

FreshCall ==
    CASE call.op = "apply_hadamard" -> apply_hadamard(QuantumGates, passed[1])
      [] call.op = "apply_pauli_x" -> apply_pauli_x(QuantumGates, passed[1])
      [] call.op = "apply_pauli_y" -> apply_pauli_y(QuantumGates, passed[1])
      [] call.op = "apply_pauli_z" -> apply_pauli_z(QuantumGates, passed[1])
      [] call.op = "apply_s_gate" -> apply_s_gate(QuantumGates, passed[1])
      [] call.op = "apply_t_gate" -> apply_t_gate(QuantumGates, passed[1])
      [] call.op = "apply_rotation" ->
            apply_rotation(QuantumGates, passed[1], call.angle, call.axis)
      [] call.op = "apply_phase" -> apply_phase(QuantumGates, passed[1], call.angle)
      [] call.op = "apply_cnot" -> apply_cnot(QuantumGates, passed[1])
      [] call.op = "apply_swap" -> apply_swap(QuantumGates, passed[1])
      [] call.op = "apply_controlled_u" ->
            apply_controlled_u(QuantumGates, passed[1], passed[2])
      [] call.op = "apply_toffoli" -> apply_toffoli(QuantumGates, passed[1])
      [] call.op = "apply_custom_gate" ->
            apply_custom_gate(QuantumGates, passed[1], passed[2])
      [] call.op = "apply_grover_diffusion" ->
            apply_grover_diffusion(QuantumGates, passed[1])
      [] OTHER -> create_bell_state(QuantumGates)

C22_HistoryIndependent ==
    /\ call.op \in GateOps \cup {"create_bell_state"} =>
        /\ ret.error = FreshCall.error
        /\ ret.value = FreshCall.value
    /\ (/\ call.op \in GateOps \cup {"create_bell_state"}
        /\ prev.call = call
        /\ prev.passed = passed
        /\ prev.ret.error # "none") =>
        ret = prev.ret

C22_Witness ==
    /\ call.op = "apply_grover_diffusion"
    /\ prev.call.op = "apply_grover_diffusion"
    /\ prev.ret.error = "none"
    /\ IsState(passed[1], 4)
    /\ passed[1] # prev.passed[1]
    /\ torch_mean(passed[1]) # torch_mean(prev.passed[1])
    /\ Succeeded

C22_WitnessRepeatedFailure ==
    /\ call.op = "apply_rotation"
    /\ prev.call = call
    /\ prev.passed = passed
    /\ prev.ret.error = "ValueError"
    /\ ret.error = "ValueError"

\* C23: a matrix supplied by the caller is not checked for unitarity:
\* apply_custom_gate(s, M) with M of matching dimension returns s.M, and
\* apply_controlled_u(s, u) with a 2x2 u on a 4-amplitude s returns
\* s.diag(I2, u), without raising, also when the matrix is not unitary.
IsUnitary(g) ==
    matmul(g, Conjugate(Transpose(g))) = Value(torch_eye(g.shape[1]))

BlockDiagonal(u) ==
    [shape |-> <<4, 4>>,
     data |-> [n \in 1..16 |->
        LET i == (n - 1) \div 4
            j == (n - 1) % 4
        IN  IF i < 2 /\ j < 2 THEN (IF i = j THEN One ELSE Zero)
            ELSE IF i >= 2 /\ j >= 2 THEN At(u, i - 2, j - 2)
            ELSE Zero]]

C23_NoUnitarityCheck ==
    /\ (/\ call.op = "apply_custom_gate"
        /\ Len(passed[1].shape) = 1
        /\ passed[2].shape = <<passed[1].shape[1], passed[1].shape[1]>>) =>
        /\ Succeeded
        /\ ret.value = LeftMultiply(Transpose(passed[2]), passed[1])
    /\ (/\ call.op = "apply_controlled_u"
        /\ IsState(passed[1], 4)
        /\ passed[2].shape = <<2, 2>>) =>
        /\ Succeeded
        /\ ret.value = LeftMultiply(Transpose(BlockDiagonal(passed[2])), passed[1])

C23_Witness ==
    /\ call.op = "apply_custom_gate"
    /\ ~IsUnitary(passed[2])
    /\ IsState(passed[1], 2)
    /\ Normalized(passed[1])
    /\ Succeeded
    /\ ~Normalized(ret.value)

\* C24: two gate calls in a row compose as the matrix product in the order of
\* application: when a call with matrix A (a fixed gate or a custom matrix) on
\* state s is followed by a call with matrix B of the same dimension on the
\* state returned, the second call returns apply_custom_gate(s, A.B); so
\* apply_swap(apply_cnot(s)) is apply_custom_gate(s, cnot.swap).
MatrixCalls == FixedGates2 \cup FixedGates4 \cup {"apply_custom_gate"}

MatrixOf(c, args) ==
    CASE c.op = "apply_hadamard" -> self.hadamard_matrix
      [] c.op = "apply_pauli_x" -> self.pauli_x
      [] c.op = "apply_pauli_y" -> self.pauli_y
      [] c.op = "apply_pauli_z" -> self.pauli_z
      [] c.op = "apply_s_gate" -> self.s_gate
      [] c.op = "apply_t_gate" -> self.t_gate
      [] c.op = "apply_cnot" -> self.cnot
      [] c.op = "apply_swap" -> self.swap
      [] OTHER -> args[2]

Composed ==
    /\ prev.call.op \in MatrixCalls
    /\ call.op \in MatrixCalls
    /\ prev.ret.error = "none"
    /\ passed[1] = prev.ret.value
    /\ Len(passed[1].shape) = 1
    /\ MatrixOf(call, passed).shape = <<passed[1].shape[1], passed[1].shape[1]>>
    /\ MatrixOf(prev.call, prev.passed).shape = MatrixOf(call, passed).shape

C24_Composition ==
    Composed =>
        /\ Succeeded
        /\ ret.value =
              apply_custom_gate(self, prev.passed[1],
                                matmul(MatrixOf(prev.call, prev.passed),
                                       MatrixOf(call, passed)).value).value

C24_Witness ==
    /\ prev.call.op = "apply_cnot"
    /\ call.op = "apply_swap"
    /\ Composed
    /\ ret.value = apply_custom_gate(self, prev.passed[1], CnotSwap).value
    /\ ret.value # apply_custom_gate(self, prev.passed[1],
                                     matmul(self.swap, self.cnot).value).value

\* C29: on a 2-amplitude state, apply_s_gate twice is apply_pauli_z,
\* apply_t_gate twice is apply_s_gate, and each of apply_pauli_z, apply_s_gate
\* and apply_t_gate returns amplitude 0 as given.
PhaseGates == {"apply_pauli_z", "apply_s_gate", "apply_t_gate"}

Twice(op) ==
    /\ prev.call.op = op
    /\ call.op = op
    /\ IsState(prev.passed[1], 2)
    /\ prev.ret.error = "none"
    /\ passed[1] = prev.ret.value

C29_PhaseGates ==
    /\ Twice("apply_s_gate") =>
        Succeeded /\ ret.value = apply_pauli_z(self, prev.passed[1]).value
    /\ Twice("apply_t_gate") =>
        Succeeded /\ ret.value = apply_s_gate(self, prev.passed[1]).value
    /\ (call.op \in PhaseGates /\ IsState(passed[1], 2)) =>
        /\ Succeeded
        /\ IsState(ret.value, 2)
        /\ ret.value.data[1] = passed[1].data[1]

C29_Witness ==
    /\ Twice("apply_t_gate")
    /\ passed[1].data[2] # Zero
    /\ ret.value.data[2] = CMul(ImagI, prev.passed[1].data[2])
    /\ ret.value # passed[1]

\* C25: the handler list of every event type is ordered by non-increasing
\* priority, and a successful register_handler lengthens the list of its event
\* type by one and returns its new length as handler_count.
Registered == registration.value.status = "registered"

C25_PriorityOrder ==
    /\ \A t \in DOMAIN handlers :
        \A i, j \in 1..Len(handlers[t]) :
            i < j => handlers[t][i].priority >= handlers[t][j].priority
    /\ Registered =>
        LET t == registration.value.event_type
        IN  /\ Len(handlers[t]) = Len(dict_get(registration.before, t, <<>>)) + 1
            /\ registration.value.handler_count = Len(handlers[t])

\* C26: a generate_signal call entered less than signal_cooldown seconds after
\* the time noted by the last successful call raises the rate-limit
\* SignalGenerationError without validating or generating; last_signal_time
\* is the time noted by the last successful call and nothing else, and two
\* successful calls are at least signal_cooldown seconds apart.
Called == generation.op = "generate_signal"

C27_TwoStates ==
    /\ (request.op = "start_profiling" /\ request.before.profiler # <<>>) =>
        /\ request.value.status = "error"
        /\ request.value.message = "Profiler already running"
        /\ ProfilerSelf = request.before
    /\ request.op = "clear_profile_data" =>
        /\ profiler = <<>>
        /\ profile_data = <<>>
        /\ start_time = 0
    /\ request.op = "get_profile_status" =>
        (request.value.status = "running" <=> session)

\* C30: apply_cognitive_dropout on an instance whose training attribute the
\* caller has not set returns the states it was given, without raising; the
\* states are masked and rescaled only when the training flag is true.
C30_DropoutOffByDefault ==
    /\ (/\ dropout.op = "apply_cognitive_dropout"
        /\ "training" \notin DOMAIN attention[1]) =>
        /\ dropout.error = "none"
        /\ dropout.value = dropout.states
    /\ (/\ dropout.op = "apply_cognitive_dropout"
        /\ dropout.error = "none"
        /\ dropout.value # dropout.states) =>
        /\ "training" \in DOMAIN attention[1]
        /\ truthy(attention[1]["training"])

=============================================================================
